---- MODULE Spec2Model ----
(***************************************************************************)
(* Model of the two sketches that drive a 6850 ACIA from an Arduino:       *)
(*   MC6850.ino              (the short sketch, eight writeUart calls)     *)
(*   6850.ino  (part_000)    (the documented sketch, printStringToUart)    *)
(* The program is sequential.  Every statement of the sketches is one      *)
(* instruction of a function body below; the actions interpret the         *)
(* instruction at the top of the call stack.                               *)
(***************************************************************************)
EXTENDS Integers, Sequences, FiniteSets, TLC

VARIABLES
    variant,    \* which sketch runs: "MC6850.ino" or "6850.ino"
    stack,      \* call stack, top frame last
    pins,       \* output latch of every pin (digitalWrite)
    mode,       \* direction of every pin (pinMode)
    modeCount,  \* number of pinMode calls per pin
    timer,      \* TCCR2A, TCCR2B, OCR2A
    timerCount, \* number of assignments per timer register
    progmem,    \* bytes of the string stored in program memory
    started,    \* setup() has been entered
    iter,       \* number of loop() calls started
    txByte,     \* byte most recently handed to a data-register write
    wfn,        \* register-write function entered most recently
    wlog,       \* bus-line writes and delays since that function was entered
    latched,    \* <<RS, data bus>> at every rising edge of ENABLE
    lastGap,    \* ms between the last two data-register ENABLE edges, -1 if none
    sinceData,  \* ms since the last data-register ENABLE edge, -1 if none
    sendTrace,  \* bus-line writes of the send in progress / last finished
    prevTrace,  \* bus-line writes of the send before that
    sends,      \* number of sends finished
    busWritten, \* some digitalWrite to a bus line has happened
    events      \* pinMode, timer and digitalWrite statements on bus lines and
                \* timer registers from reset to the end of the first send

vars == <<variant, stack, pins, mode, modeCount, timer, timerCount, progmem,
          started, iter, txByte, wfn, wlog, latched, lastGap, sinceData,
          sendTrace, prevTrace, sends, busWritten, events>>

----------------------------------------------------------------------------
\* Bounds of the model
MaxIter == 2        \* loop() iterations explored
MaxStrlen == 10     \* largest value a data-space strlen() read is given
MaxPrior == 3       \* index of the last prior data-bus pattern

----------------------------------------------------------------------------
\* Arduino constants
LOW == 0
HIGH == 1
INPUT == 0
OUTPUT == 1
A0 == 14
A1 == 15
A2 == 16
A3 == 17

\* Pin definitions
BAUDCLK == 11
ENABLE == A0
RWN == A1
RS == A2
CSN == A3
CS2N == A3
D0 == 2
D1 == 3
D2 == 4
D3 == 5
D4 == 6
D5 == 7
D6 == 8
D7 == 9
LED_OUTPUT == 13

\* mutant: the settling delay counted in microseconds, none of a millisecond
DELAY_SHORT_micros == 1 \div 1000

\* Timing constants
DELAY_SHORT == 1
DELAY_MEDIUM == 50
DELAY_LONG == 200

\* const char testString[] PROGMEM = {"TESTACIA"};
testString == <<84, 69, 83, 84, 65, 67, 73, 65>>

DataPins == <<D0, D1, D2, D3, D4, D5, D6, D7>>
BusLines == {D0, D1, D2, D3, D4, D5, D6, D7, RS, RWN, ENABLE, CSN, BAUDCLK}
AllPins == BusLines \cup {LED_OUTPUT}

----------------------------------------------------------------------------
\* Arduino primitives as values

\* bitRead(value, bit) is (((value) >> (bit)) & 0x01); >> on a negative int
\* is an arithmetic shift, which is floor division
Pow2(n) == IF n = 0 THEN 1 ELSE IF n = 1 THEN 2 ELSE IF n = 2 THEN 4
           ELSE IF n = 3 THEN 8 ELSE IF n = 4 THEN 16 ELSE IF n = 5 THEN 32
           ELSE IF n = 6 THEN 64 ELSE 128

bitRead(value, bit) == (value \div Pow2(bit)) % 2

\* char myChar = <uint8_t>: char is signed on AVR
ToChar(b) == IF b >= 128 THEN b - 256 ELSE b

\* digitalWrite(pin, val) drives LOW when val == LOW and HIGH otherwise
Level(val) == IF val = LOW THEN LOW ELSE HIGH

\* instructions
PM(p, m) == [op |-> "pinMode", a |-> p, b |-> m]
DW(p, v) == [op |-> "digitalWrite", a |-> p, b |-> v]
DL(ms) == [op |-> "delay", a |-> ms, b |-> 0]
REG(r, v) == [op |-> "reg", a |-> r, b |-> v]
CALL(f, x) == [op |-> "call", a |-> f, b |-> x]
FORSTRLEN == [op |-> "forStrlen", a |-> 0, b |-> 0]
FORCOUNT(n) == [op |-> "forCount", a |-> n, b |-> 0]
PGMREAD == [op |-> "pgmRead", a |-> 0, b |-> 0]
NEXTJ(target) == [op |-> "incr", a |-> target, b |-> 0]

----------------------------------------------------------------------------
\* Function bodies of MC6850.ino

\* mutant: the clock is programmed before the pins are made outputs
setup_MC6850_clockFirst ==
    << CALL("initBaudClock", 0),
       CALL("setBusesToOutput", 0),
       CALL("initMC6850", 0) >>

setup_MC6850 ==
    << CALL("setBusesToOutput", 0),
       CALL("initBaudClock", 0),
       CALL("initMC6850", 0) >>

loop_MC6850 ==
    << CALL("writeUart", 84),   \* 'T'
       CALL("writeUart", 69),   \* 'E'
       CALL("writeUart", 83),   \* 'S'
       CALL("writeUart", 84),   \* 'T'
       CALL("writeUart", 65),   \* 'A'
       CALL("writeUart", 67),   \* 'C'
       CALL("writeUart", 73),   \* 'I'
       CALL("writeUart", 65),   \* 'A'
       DL(100) >>

\* mutant: chip-select left HIGH
writeUart_csLeftHigh(data) ==
    << DL(1),
       DW(ENABLE, LOW),
       DL(1),
       DW(RWN, LOW),
       DL(1),
       DW(RS, HIGH),
       DL(1),
       DW(CSN, HIGH),
       DL(1),
       CALL("writeDataBus", data),
       DL(1),
       DW(ENABLE, HIGH),
       DL(1) >>

\* mutant: the data lines driven after the ENABLE pulse
writeUart_dataAfterEnable(data) ==
    << DL(1),
       DW(ENABLE, LOW),
       DL(1),
       DW(RWN, LOW),
       DL(1),
       DW(RS, HIGH),
       DL(1),
       DW(CSN, HIGH),
       DL(1),
       DW(CSN, LOW),
       DL(1),
       DW(ENABLE, HIGH),
       DL(1),
       CALL("writeDataBus", data) >>

writeUart(data) ==
    << DL(1),
       DW(ENABLE, LOW),
       DL(1),
       DW(RWN, LOW),
       DL(1),
       DW(RS, HIGH),
       DL(1),
       DW(CSN, HIGH),
       DL(1),
       CALL("writeDataBus", data),
       DW(CSN, LOW),
       DL(1),
       DW(ENABLE, HIGH),
       DL(1) >>

\* mutant: D7 driven from bit 6
writeDataBus_bit6Twice(data) ==
    << DW(D0, bitRead(data, 0)),
       DW(D1, bitRead(data, 1)),
       DW(D2, bitRead(data, 2)),
       DW(D3, bitRead(data, 3)),
       DW(D4, bitRead(data, 4)),
       DW(D5, bitRead(data, 5)),
       DW(D6, bitRead(data, 6)),
       DW(D7, bitRead(data, 6)) >>

writeDataBus(data) ==
    << DW(D0, bitRead(data, 0)),
       DW(D1, bitRead(data, 1)),
       DW(D2, bitRead(data, 2)),
       DW(D3, bitRead(data, 3)),
       DW(D4, bitRead(data, 4)),
       DW(D5, bitRead(data, 5)),
       DW(D6, bitRead(data, 6)),
       DW(D7, bitRead(data, 7)) >>

\* mutant: the compare value for 16 x 4800
initBaudClock_4800 ==
    << REG("TCCR2A", 67),
       REG("TCCR2B", 9),
       REG("OCR2A", 103) >>

initBaudClock ==
    << REG("TCCR2A", 67),    \* 0b01000011
       REG("TCCR2B", 9),     \* 0b00001001
       REG("OCR2A", 51) >>

\* mutant: CR1 driven HIGH as well, which selects master reset
initMC6850_reset ==
    << DL(1),
       DW(ENABLE, LOW),
       DL(1),
       DW(RWN, LOW),
       DL(1),
       DW(RS, LOW),
       DL(1),
       DW(CSN, HIGH),
       DL(1),
       DW(D0, HIGH),
       DW(D1, HIGH),
       DW(D2, HIGH),
       DW(D3, LOW),
       DW(D4, HIGH),
       DW(D5, LOW),
       DW(D6, LOW),
       DW(D7, LOW),
       DW(CSN, LOW),
       DL(1),
       DW(ENABLE, HIGH),
       DL(1) >>

initMC6850 ==
    << DL(1),
       DW(ENABLE, LOW),
       DL(1),
       DW(RWN, LOW),
       DL(1),
       DW(RS, LOW),
       DL(1),
       DW(CSN, HIGH),
       DL(1),
       DW(D0, HIGH),
       DW(D1, LOW),
       DW(D2, HIGH),
       DW(D3, LOW),
       DW(D4, HIGH),
       DW(D5, LOW),
       DW(D6, LOW),
       DW(D7, LOW),
       DW(CSN, LOW),
       DL(1),
       DW(ENABLE, HIGH),
       DL(1) >>

setBusesToOutput ==
    << PM(D0, OUTPUT),
       PM(D1, OUTPUT),
       PM(D2, OUTPUT),
       PM(D3, OUTPUT),
       PM(D4, OUTPUT),
       PM(D5, OUTPUT),
       PM(D6, OUTPUT),
       PM(D7, OUTPUT),
       PM(RS, OUTPUT),
       PM(RWN, OUTPUT),
       PM(ENABLE, OUTPUT),
       PM(BAUDCLK, OUTPUT),
       PM(CSN, OUTPUT) >>

----------------------------------------------------------------------------
\* Function bodies of 6850.ino

\* mutant: the chip is configured before the clock is programmed
setup_6850_uartFirst ==
    << PM(LED_OUTPUT, OUTPUT),
       CALL("setUartPinsToOutput", 0),
       CALL("initUart", 0),
       CALL("initClocks", 0) >>

setup_6850 ==
    << PM(LED_OUTPUT, OUTPUT),
       CALL("setUartPinsToOutput", 0),
       CALL("initClocks", 0),
       CALL("initUart", 0) >>

\* mutant: the clock is programmed again in every iteration
loop_6850_reinit ==
    << CALL("initClocks", 0),
       CALL("printStringToUart", 0),
       DW(LED_OUTPUT, HIGH),
       DL(DELAY_MEDIUM),
       DW(LED_OUTPUT, LOW),
       DL(1000) >>

loop_6850 ==
    << CALL("printStringToUart", 0),
       DW(LED_OUTPUT, HIGH),
       DL(DELAY_MEDIUM),
       DW(LED_OUTPUT, LOW),
       DL(1000) >>

setUartPinsToOutput ==
    << PM(D0, OUTPUT),
       PM(D1, OUTPUT),
       PM(D2, OUTPUT),
       PM(D3, OUTPUT),
       PM(D4, OUTPUT),
       PM(D5, OUTPUT),
       PM(D6, OUTPUT),
       PM(D7, OUTPUT),
       PM(RS, OUTPUT),
       PM(RWN, OUTPUT),
       PM(ENABLE, OUTPUT),
       PM(BAUDCLK, OUTPUT),
       PM(CS2N, OUTPUT) >>

\* defined by the sketch and called from nowhere
setDataBusToHighZ ==
    << PM(D0, INPUT),
       PM(D1, INPUT),
       PM(D2, INPUT),
       PM(D3, INPUT),
       PM(D4, INPUT),
       PM(D5, INPUT),
       PM(D6, INPUT),
       PM(D7, INPUT) >>

\* mutant: no settling delay after the ENABLE pulse
writeCharToUart_noFinalDelay(data) ==
    << DW(ENABLE, LOW),
       DL(DELAY_SHORT),
       DW(RWN, LOW),
       DL(DELAY_SHORT),
       DW(RS, HIGH),
       DL(DELAY_SHORT),
       DW(CS2N, HIGH),
       DL(DELAY_SHORT),
       CALL("writeDataBus", data),
       DW(CS2N, LOW),
       DL(DELAY_SHORT),
       DW(ENABLE, HIGH) >>

\* mutant: chip-select released before the data lines are driven
writeCharToUart_csEarly(data) ==
    << DW(ENABLE, LOW),
       DL(DELAY_SHORT),
       DW(RWN, LOW),
       DL(DELAY_SHORT),
       DW(RS, HIGH),
       DL(DELAY_SHORT),
       DW(CS2N, HIGH),
       DL(DELAY_SHORT),
       DW(CS2N, LOW),
       CALL("writeDataBus", data),
       DL(DELAY_SHORT),
       DW(ENABLE, HIGH),
       DL(DELAY_SHORT) >>

writeCharToUart(data) ==
    << DW(ENABLE, LOW),
       DL(DELAY_SHORT),
       DW(RWN, LOW),
       DL(DELAY_SHORT),
       DW(RS, HIGH),
       DL(DELAY_SHORT),
       DW(CS2N, HIGH),
       DL(DELAY_SHORT),
       CALL("writeDataBus", data),
       DW(CS2N, LOW),
       DL(DELAY_SHORT),
       DW(ENABLE, HIGH),
       DL(DELAY_SHORT) >>

\* for (int j = 0; j < strlen(str); j++) {
\*     myChar = pgm_read_byte_near(str + j); writeCharToUart(myChar); }
printStringToUart(myChar) ==
    << FORSTRLEN,
       PGMREAD,
       CALL("writeCharToUart", myChar),
       NEXTJ(1) >>

\* for (int i = 0; i < 4; i++) { HIGH, delay, LOW, delay }
blinkLed ==
    << FORCOUNT(4),
       DW(LED_OUTPUT, HIGH),
       DL(DELAY_LONG),
       DW(LED_OUTPUT, LOW),
       DL(DELAY_LONG),
       NEXTJ(1) >>

initClocks ==
    << REG("TCCR2A", 67),    \* 0b01000011
       REG("TCCR2B", 9),     \* 0b00001001
       REG("OCR2A", 51) >>

\* mutant: RWN driven to the read level
initUart_read ==
    << DL(DELAY_SHORT),
       DW(ENABLE, LOW),
       DL(DELAY_SHORT),
       DW(RWN, HIGH),
       DL(DELAY_SHORT),
       DW(RS, LOW),
       DL(DELAY_SHORT),
       DW(CS2N, HIGH),
       DL(DELAY_SHORT),
       CALL("writeDataBus", 21),
       DW(CS2N, LOW),
       DL(DELAY_SHORT),
       DW(ENABLE, HIGH),
       DL(DELAY_SHORT),
       CALL("blinkLed", 0) >>

\* mutant: ENABLE raised before the data lines are driven
initUart_enableEarly ==
    << DL(DELAY_SHORT),
       DW(ENABLE, LOW),
       DL(DELAY_SHORT),
       DW(RWN, LOW),
       DL(DELAY_SHORT),
       DW(RS, LOW),
       DL(DELAY_SHORT),
       DW(CS2N, HIGH),
       DL(DELAY_SHORT),
       DW(CS2N, LOW),
       DL(DELAY_SHORT),
       DW(ENABLE, HIGH),
       DL(DELAY_SHORT),
       CALL("writeDataBus", 21),
       CALL("blinkLed", 0) >>

initUart ==
    << DL(DELAY_SHORT),
       DW(ENABLE, LOW),
       DL(DELAY_SHORT),
       DW(RWN, LOW),
       DL(DELAY_SHORT),
       DW(RS, LOW),
       DL(DELAY_SHORT),
       DW(CS2N, HIGH),
       DL(DELAY_SHORT),
       CALL("writeDataBus", 21),    \* 0b00010101
       DW(CS2N, LOW),
       DL(DELAY_SHORT),
       DW(ENABLE, HIGH),
       DL(DELAY_SHORT),
       CALL("blinkLed", 0) >>

----------------------------------------------------------------------------
\* The interpreter

WriteFns == {"initMC6850", "initUart", "writeUart", "writeCharToUart"}
DataWriteFns == {"writeUart", "writeCharToUart"}
TimerRegs == {"TCCR2A", "TCCR2B", "OCR2A"}
DELAYMARK == 0 - 1

\* the function that sends the message: loop() of MC6850.ino holds the eight
\* writeUart calls itself, 6850.ino calls printStringToUart(testString)
SendFn == IF variant = "MC6850.ino" THEN "loop" ELSE "printStringToUart"

Frame(f, x) == [fn |-> f, pc |-> 1, data |-> x, j |-> 0, myChar |-> 0]

Body(f) ==
    CASE f.fn = "setup" -> IF variant = "MC6850.ino" THEN setup_MC6850 ELSE setup_6850
      [] f.fn = "loop" -> IF variant = "MC6850.ino" THEN loop_MC6850 ELSE loop_6850
      [] f.fn = "setBusesToOutput" -> setBusesToOutput
      [] f.fn = "initBaudClock" -> initBaudClock
      [] f.fn = "initMC6850" -> initMC6850
      [] f.fn = "writeUart" -> writeUart(f.data)
      [] f.fn = "writeDataBus" -> writeDataBus(f.data)
      [] f.fn = "setUartPinsToOutput" -> setUartPinsToOutput
      [] f.fn = "setDataBusToHighZ" -> setDataBusToHighZ
      [] f.fn = "initClocks" -> initClocks
      [] f.fn = "initUart" -> initUart
      [] f.fn = "writeCharToUart" -> writeCharToUart(f.data)
      [] f.fn = "printStringToUart" -> printStringToUart(f.myChar)
      [] f.fn = "blinkLed" -> blinkLed

Top == stack[Len(stack)]
AtEnd == stack # <<>> /\ Top.pc > Len(Body(Top))
Instr == Body(Top)[Top.pc]
At(op) == stack # <<>> /\ Top.pc <= Len(Body(Top)) /\ Instr.op = op
Advance == [stack EXCEPT ![Len(stack)].pc = @ + 1]
OnStack(f) == \E k \in 1..Len(stack) : stack[k].fn = f

\* value on D7..D0
BusValue(p) ==
    p[D0] + 2 * p[D1] + 4 * p[D2] + 8 * p[D3] + 16 * p[D4] + 32 * p[D5]
    + 64 * p[D6] + 128 * p[D7]

\* strlen(str) is called on the address of a PROGMEM array.  strlen reads the
\* data address space, the array lives in program memory (it is read with
\* pgm_read_byte_near), so what a data-space read returns is not determined by
\* the sketch.  A build that folds strlen of the constant array yields its
\* length; any other build yields whatever the data space holds at that
\* address, at every evaluation.
StrlenOutcomes == {Len(progmem)} \cup (0..MaxStrlen)

\* program memory past the array and its terminator holds bytes the sketch
\* does not define
FlashBeyond == {0, 255}

\* pgm_read_byte_near(str + j)
PgmByte(j) ==
    IF j < Len(progmem) THEN {progmem[j + 1]}
    ELSE IF j = Len(progmem) THEN {0}
    ELSE FlashBeyond

Obs == <<txByte, wfn, wlog, latched, lastGap, sinceData, sendTrace, prevTrace,
         sends, busWritten>>
Hw == <<pins, mode, modeCount, timer, timerCount>>

\* position of a timer register in the order initClocks assigns them
RegIndex(r) == IF r = "TCCR2A" THEN 1 ELSE IF r = "TCCR2B" THEN 2 ELSE 3

\* events is recorded until the first send has returned
Record(e) == IF sends = 0 THEN Append(events, e) ELSE events

----------------------------------------------------------------------------
\* Initial state: reset.  PORT and DDR registers are zero, Timer2 registers
\* are zero, main() has not called setup() yet.
Init ==
    /\ variant \in {"MC6850.ino", "6850.ino"}
    /\ stack = <<>>
    /\ pins = [p \in AllPins |-> LOW]
    /\ mode = [p \in AllPins |-> INPUT]
    /\ modeCount = [p \in AllPins |-> 0]
    /\ timer = [r \in TimerRegs |-> 0]
    /\ timerCount = [r \in TimerRegs |-> 0]
    /\ progmem = testString
    /\ started = FALSE
    /\ iter = 0
    /\ txByte = 0
    /\ wfn = "none"
    /\ wlog = <<>>
    /\ latched = <<>>
    /\ lastGap = -1
    /\ sinceData = -1
    /\ sendTrace = <<>>
    /\ prevTrace = <<>>
    /\ sends = 0
    /\ busWritten = FALSE
    /\ events = <<>>

\* main(): setup() once
CallSetup ==
    /\ stack = <<>>
    /\ ~started
    /\ started' = TRUE
    /\ stack' = <<Frame("setup", 0)>>
    /\ UNCHANGED <<variant, progmem, iter, Hw, Obs>>
    /\ UNCHANGED events

\* main(): for (;;) loop()
CallLoop ==
    /\ stack = <<>>
    /\ started
    /\ iter < MaxIter
    /\ iter' = iter + 1
    /\ stack' = <<Frame("loop", 0)>>
    /\ sendTrace' = IF SendFn = "loop" THEN <<>> ELSE sendTrace
    /\ prevTrace' = IF SendFn = "loop" THEN sendTrace ELSE prevTrace
    /\ UNCHANGED <<variant, progmem, started, Hw, txByte, wfn, wlog, latched,
                   lastGap, sinceData, sends, busWritten>>
    /\ UNCHANGED events

PinMode ==
    /\ At("pinMode")
    /\ mode' = [mode EXCEPT ![Instr.a] = Instr.b]
    /\ modeCount' = [modeCount EXCEPT ![Instr.a] = @ + 1]
    /\ stack' = Advance
    /\ UNCHANGED <<variant, progmem, started, iter, pins, timer, timerCount, Obs>>
    /\ events' = IF Instr.a \in BusLines THEN Record(<<"pinMode", Instr.a, Instr.b>>)
                 ELSE events

DigitalWrite ==
    /\ At("digitalWrite")
    /\ LET pin == Instr.a
           lvl == Level(Instr.b)
           bus == pin \in BusLines
           rising == pin = ENABLE /\ lvl = HIGH /\ pins[ENABLE] = LOW
           dataEdge == rising /\ pins[RS] = HIGH
       IN  /\ pins' = [pins EXCEPT ![pin] = lvl]
           /\ wlog' = IF bus THEN Append(wlog, <<pin, lvl>>) ELSE wlog
           /\ sendTrace' = IF bus /\ OnStack(SendFn)
                           THEN Append(sendTrace, <<pin, lvl>>) ELSE sendTrace
           /\ busWritten' = (busWritten \/ bus)
           /\ latched' = IF rising
                         THEN Append(latched, <<pins[RS], BusValue(pins)>>)
                         ELSE latched
           /\ lastGap' = IF dataEdge THEN sinceData ELSE lastGap
           /\ sinceData' = IF dataEdge THEN 0 ELSE sinceData
    /\ stack' = Advance
    /\ UNCHANGED <<variant, progmem, started, iter, mode, modeCount, timer,
                   timerCount, txByte, wfn, prevTrace, sends>>
    /\ events' = IF Instr.a \in BusLines
                 THEN Record(<<"digitalWrite", Instr.a, Level(Instr.b)>>)
                 ELSE events

\* delay(ms) busy-waits for at least ms milliseconds
Delay ==
    /\ At("delay")
    /\ sinceData' = IF sinceData = -1 THEN -1 ELSE sinceData + Instr.a
    /\ wlog' = Append(wlog, <<DELAYMARK, Instr.a>>)
    /\ stack' = Advance
    /\ UNCHANGED <<variant, progmem, started, iter, Hw, txByte, wfn, latched,
                   lastGap, sendTrace, prevTrace, sends, busWritten>>
    /\ UNCHANGED events

TimerWrite ==
    /\ At("reg")
    /\ timer' = [timer EXCEPT ![Instr.a] = Instr.b]
    /\ timerCount' = [timerCount EXCEPT ![Instr.a] = @ + 1]
    /\ stack' = Advance
    /\ UNCHANGED <<variant, progmem, started, iter, pins, mode, modeCount, Obs>>
    /\ events' = Record(<<"reg", RegIndex(Instr.a), Instr.b>>)

Call ==
    /\ At("call")
    /\ LET f == Instr.a
           x == Instr.b
       IN  /\ stack' = Append(stack, Frame(f, x))
           /\ wfn' = IF f \in WriteFns THEN f ELSE wfn
           /\ wlog' = IF f \in WriteFns THEN <<>> ELSE wlog
           /\ txByte' = IF f = "writeUart" THEN x ELSE txByte
           /\ sendTrace' = IF f = SendFn THEN <<>> ELSE sendTrace
           /\ prevTrace' = IF f = SendFn THEN sendTrace ELSE prevTrace
    /\ UNCHANGED <<variant, progmem, started, iter, Hw, latched, lastGap,
                   sinceData, sends, busWritten>>
    /\ UNCHANGED events

\* return to the caller, which continues after its call statement
Return ==
    /\ AtEnd
    /\ stack' = IF Len(stack) = 1 THEN <<>>
                ELSE [SubSeq(stack, 1, Len(stack) - 1)
                        EXCEPT ![Len(stack) - 1].pc = @ + 1]
    /\ sends' = IF Top.fn = SendFn THEN sends + 1 ELSE sends
    /\ UNCHANGED <<variant, progmem, started, iter, Hw, txByte, wfn, wlog,
                   latched, lastGap, sinceData, sendTrace, prevTrace, busWritten>>
    /\ UNCHANGED events

\* j < strlen(str)
ForStrlen ==
    /\ At("forStrlen")
    /\ \E n \in StrlenOutcomes :
         stack' = IF Top.j < n THEN Advance
                  ELSE [stack EXCEPT ![Len(stack)].pc = Len(Body(Top)) + 1]
    /\ UNCHANGED <<variant, progmem, started, iter, Hw, Obs>>
    /\ UNCHANGED events

\* i < 4
ForCount ==
    /\ At("forCount")
    /\ stack' = IF Top.j < Instr.a THEN Advance
                ELSE [stack EXCEPT ![Len(stack)].pc = Len(Body(Top)) + 1]
    /\ UNCHANGED <<variant, progmem, started, iter, Hw, Obs>>
    /\ UNCHANGED events

\* myChar = pgm_read_byte_near(str + j)
PgmRead ==
    /\ At("pgmRead")
    /\ \E byte \in PgmByte(Top.j) :
         /\ stack' = [stack EXCEPT ![Len(stack)].myChar = ToChar(byte),
                                   ![Len(stack)].pc = @ + 1]
         /\ txByte' = byte
    /\ UNCHANGED <<variant, progmem, started, iter, Hw, wfn, wlog, latched,
                   lastGap, sinceData, sendTrace, prevTrace, sends, busWritten>>
    /\ UNCHANGED events

\* j++ and back to the loop test
Incr ==
    /\ At("incr")
    /\ stack' = [stack EXCEPT ![Len(stack)].j = @ + 1,
                              ![Len(stack)].pc = Instr.a]
    /\ UNCHANGED <<variant, progmem, started, iter, Hw, Obs>>
    /\ UNCHANGED events

Next ==
    \/ CallSetup
    \/ CallLoop
    \/ PinMode
    \/ DigitalWrite
    \/ Delay
    \/ TimerWrite
    \/ Call
    \/ Return
    \/ ForStrlen
    \/ ForCount
    \/ PgmRead
    \/ Incr

Spec == Init /\ [][Next]_vars

----------------------------------------------------------------------------
\* One register write on its own: SpecBus starts at the entry of a register
\* write function.  A control-register write starts from the pin levels that
\* setup() leaves before it (all latches still zero); a data-register write
\* of any byte v starts from the idle bus an earlier write of PriorByte(k) to
\* register r has left behind.

PriorByte(k) == (k * 85) % 256

IdlePins(r, prior) ==
    [p \in AllPins |->
        IF p = ENABLE THEN HIGH
        ELSE IF p = RS THEN r
        ELSE IF \E i \in 1..8 : DataPins[i] = p
             THEN bitRead(prior, (CHOOSE i \in 1..8 : DataPins[i] = p) - 1)
        ELSE LOW]

\* the frame a caller of the sketch pushes for a data-register write of byte v:
\* writeUart(v) in MC6850.ino; writeCharToUart(myChar) in 6850.ino, where
\* myChar is the char the byte was stored in
DataWriteFrame(v) ==
    IF variant = "MC6850.ino" THEN Frame("writeUart", v)
    ELSE Frame("writeCharToUart", ToChar(v))

ControlWriteFrame ==
    IF variant = "MC6850.ino" THEN Frame("initMC6850", 0) ELSE Frame("initUart", 0)

InitBus ==
    /\ variant \in {"MC6850.ino", "6850.ino"}
    /\ \E control \in BOOLEAN, v \in 0..255, k \in 0..MaxPrior, r \in {LOW, HIGH} :
         IF control
         THEN /\ v = 21 /\ k = 0 /\ r = LOW
              /\ stack = <<ControlWriteFrame>>
              /\ pins = [p \in AllPins |-> LOW]
              /\ txByte = v
              /\ busWritten = FALSE
         ELSE /\ stack = <<DataWriteFrame(v)>>
              /\ pins = IdlePins(r, PriorByte(k))
              /\ txByte = v
              /\ busWritten = TRUE
    /\ mode = [p \in AllPins |-> OUTPUT]
    /\ modeCount = [p \in AllPins |-> IF p = LED_OUTPUT /\ variant = "MC6850.ino"
                                      THEN 0 ELSE 1]
    /\ timer = [r \in TimerRegs |->
                  IF r = "TCCR2A" THEN 67 ELSE IF r = "TCCR2B" THEN 9 ELSE 51]
    /\ timerCount = [r \in TimerRegs |-> 1]
    /\ progmem = testString
    /\ started = TRUE
    /\ iter = 0
    /\ wfn = stack[1].fn
    /\ wlog = <<>>
    /\ latched = <<>>
    /\ lastGap = -1
    /\ sinceData = -1
    /\ sendTrace = <<>>
    /\ prevTrace = <<>>
    /\ sends = 0
    /\ events = <<>>

NextBus ==
    \/ DigitalWrite
    \/ Delay
    \/ Call
    \/ Return
    \/ ForCount
    \/ Incr

SpecBus == InitBus /\ [][NextBus]_vars

----------------------------------------------------------------------------
\* Properties

\* digitalWrite calls on bus lines since the last register write was entered
WriteTrace == SelectSeq(wlog, LAMBDA e : e[1] # DELAYMARK)
WriteInProgress == \E k \in 1..Len(stack) : stack[k].fn \in WriteFns
RegOf(f) == IF f \in DataWriteFns THEN HIGH ELSE LOW

ExpectedPins ==
    <<ENABLE, RWN, RS, CSN, D0, D1, D2, D3, D4, D5, D6, D7, CSN, ENABLE>>
ExpectedControl(i, f) ==
    CASE i = 1 -> LOW
      [] i = 2 -> LOW
      [] i = 3 -> RegOf(f)
      [] i = 4 -> HIGH
      [] i = 13 -> LOW
      [] i = 14 -> HIGH

\* C1: in every register write (control or data, any payload) the line writes
\* are, in this order: ENABLE LOW, RWN LOW, RS to the register address,
\* chip-select HIGH, D0..D7, chip-select LOW, ENABLE HIGH; nothing else is
\* written to a bus line, and the write does not return before all 14.
C1_WriteOrder ==
    wfn # "none" =>
      /\ Len(WriteTrace) <= 14
      /\ \A i \in 1..Len(WriteTrace) :
           /\ WriteTrace[i][1] = ExpectedPins[i]
           /\ i \notin 5..12 => WriteTrace[i][2] = ExpectedControl(i, wfn)
      /\ ~WriteInProgress => Len(WriteTrace) = 14

C1_Witness ==
    /\ variant = "6850.ino"
    /\ wfn = "writeCharToUart"
    /\ txByte = 200
    /\ ~WriteInProgress
    /\ Len(WriteTrace) = 14

\* register writes seen by the chip so far
ControlWrites == Cardinality({i \in 1..Len(latched) : latched[i][1] = LOW})
DataWrites == Cardinality({i \in 1..Len(latched) : latched[i][1] = HIGH})
TimerProgrammed == \A r \in TimerRegs : timerCount[r] >= 1
SetupReturned == started /\ ~OnStack("setup")

\* C2: the control register is written exactly once: never twice, not before
\* all three timer registers are programmed, before the first data-register
\* write, and once setup() has returned it has happened and no loop iteration
\* repeats it.
C2_ConfigureOnce ==
    /\ ControlWrites <= 1
    /\ ControlWrites = 1 => TimerProgrammed
    /\ DataWrites >= 1 => ControlWrites = 1 /\ latched[1][1] = LOW
    /\ SetupReturned => ControlWrites = 1
    /\ iter >= 1 => ControlWrites = 1

C2_Witness ==
    /\ iter = 2
    /\ stack = <<>>
    /\ ControlWrites = 1
    /\ DataWrites = 16

\* bit i of a byte v in 0..255
BitOf(v, i) == IF i = 0 THEN v % 2 ELSE (v \div Pow2(i)) % 2
EnableRaised == Len(WriteTrace) = 14

\* C3: once ENABLE has been driven HIGH in the data-register write of byte v
\* (any v in 0..255, any data-line levels before the write), line Di holds
\* bit i of v, so that D7..D0 read v.
C3_DataLines ==
    (wfn \in DataWriteFns /\ WriteInProgress /\ EnableRaised) =>
      /\ \A i \in 0..7 : pins[DataPins[i + 1]] = BitOf(txByte, i)
      /\ BusValue(pins) = txByte

C3_Witness ==
    /\ variant = "6850.ino"
    /\ wfn = "writeCharToUart"
    /\ WriteInProgress
    /\ EnableRaised
    /\ txByte = 165
    /\ WriteTrace[5][2] = HIGH
    /\ pins[D7] = HIGH /\ pins[D6] = LOW

\* C4: from reset the chip sees one control-register write and then, per
\* send, the eight data-register writes 0x54 0x45 0x53 0x54 0x41 0x43 0x49
\* 0x41 in that order, and never another control-register write.
C4_TestaciaSequence ==
    /\ \A i \in 1..Len(latched) :
         IF i = 1 THEN latched[i][1] = LOW
         ELSE latched[i] = <<HIGH, testString[((i - 2) % 8) + 1]>>
    /\ (SetupReturned /\ ~OnStack(SendFn)) => Len(latched) = 1 + 8 * sends

\* C5: every send writes the same sequence of (line, level) pairs as the send
\* before it.
C5_SameTrace ==
    (sends >= 2 /\ ~OnStack(SendFn)) => sendTrace = prevTrace

\* the register write the chip takes at a rising edge of ENABLE, as the
\* specification describes the chip: the register RS addresses receives
\* the byte on D7..D0
ChipLatch(e) == [reg |-> e[1], value |-> e[2]]
LastLatched == ChipLatch(latched[Len(latched)])

\* C6: when a register write has returned, the last thing the chip latched is
\* the written value in the addressed register, and the ENABLE edge that
\* latched it is the last line write of that register write.
C6_LatchedOnReturn ==
    (wfn # "none" /\ ~WriteInProgress) =>
      /\ latched # <<>>
      /\ LastLatched.reg = RegOf(wfn)
      /\ LastLatched.value = (IF wfn \in DataWriteFns THEN txByte ELSE 21)
      /\ WriteTrace[Len(WriteTrace)] = <<ENABLE, HIGH>>
      /\ pins[RS] = LastLatched.reg /\ BusValue(pins) = LastLatched.value

C6_Witness ==
    /\ wfn \in DataWriteFns
    /\ ~WriteInProgress
    /\ txByte = 255
    /\ LastLatched = [reg |-> HIGH, value |-> 255]

\* C7: the byte on D7..D0 at the ENABLE edge of a control-register write is
\* 0b00010101 in both sketches: divide by 16, 8-N-1, transmit interrupt off
\* with RTS low, receive interrupt off; bits 1..0 are not 11.
C7_ControlByte ==
    \A i \in 1..Len(latched) :
      latched[i][1] = LOW =>
        LET v == latched[i][2]
        IN  /\ v = 21
            /\ v % 4 = 1
            /\ (v \div 4) % 8 = 5
            /\ (v \div 32) % 4 = 0
            /\ v \div 128 = 0
            /\ v % 4 # 3

C7_Witness ==
    /\ variant = "MC6850.ino"
    /\ ControlWrites = 1
    /\ latched[1] = <<LOW, 21>>

\* Timer2 of the 16 MHz ATmega328P, and the clock the chip divides by 16
TimerClock == 16000000
BaudRate == 9600
IdealClock == 16 * BaudRate
\* TCCR2B bits 2:0 = 001 is prescaler 1; the output toggles at every compare
\* match, so one period takes 2 * prescaler * (OCR2A + 1) timer clocks
Prescaler == IF timer["TCCR2B"] % 8 = 1 THEN 1 ELSE 0
ClocksPerPeriod == 2 * Prescaler * (timer["OCR2A"] + 1)
Abs(x) == IF x < 0 THEN 0 - x ELSE x

\* C8: once the timer is programmed (prescaler 1, OCR2A = 51) the generated
\* frequency TimerClock / (2 * 52) is within 2% of 16 * 9600 Hz:
\* |TimerClock - ideal * period| * 100 < 2 * ideal * period.
C8_ClockError ==
    TimerProgrammed =>
      /\ Prescaler = 1
      /\ timer["OCR2A"] = 51
      /\ Abs(TimerClock - IdealClock * ClocksPerPeriod) * 100
           < 2 * IdealClock * ClocksPerPeriod

C8_Witness ==
    /\ TimerProgrammed
    /\ ClocksPerPeriod = 104
    /\ Abs(TimerClock - IdealClock * ClocksPerPeriod) = 25600

AllOutputOnce == \A p \in BusLines : mode[p] = OUTPUT /\ modeCount[p] = 1

\* C9: each of the 13 bus lines is made an output exactly once, before the
\* first digitalWrite to a bus line and before any timer register is written;
\* no line is ever made an input and setDataBusToHighZ never runs.
C9_PinsOutputOnce ==
    /\ Cardinality(BusLines) = 13
    /\ \A p \in BusLines : modeCount[p] <= 1
    /\ \A p \in BusLines : modeCount[p] = 1 => mode[p] = OUTPUT
    /\ busWritten => AllOutputOnce
    /\ (\E r \in TimerRegs : timerCount[r] >= 1) => AllOutputOnce
    /\ SetupReturned => AllOutputOnce
    /\ ~OnStack("setDataBusToHighZ")

C9_Witness ==
    /\ iter = 2
    /\ stack = <<>>
    /\ busWritten
    /\ TimerProgrammed
    /\ AllOutputOnce

\* C10: between two consecutive data-register ENABLE edges the delays add up
\* to more than ten bit times at 9600 baud: gap_ms * 9600 > 10 * 1000.
C10_GapExceedsCharTime ==
    lastGap # -1 => lastGap * BaudRate > 10 * 1000

C10_Witness ==
    /\ variant = "6850.ino"
    /\ lastGap = 6
    /\ DataWrites >= 2

\* the bytes a send has written to the data register, read off its line
\* writes: every register write is 14 line writes, the 5th to 12th are D0..D7
SendWrites(t) == Len(t) \div 14
SendByte(t, k) ==
    LET base == 14 * (k - 1) + 4
    IN  t[base + 1][2] + 2 * t[base + 2][2] + 4 * t[base + 3][2]
        + 8 * t[base + 4][2] + 16 * t[base + 5][2] + 32 * t[base + 6][2]
        + 64 * t[base + 7][2] + 128 * t[base + 8][2]
SendBytes(t) == [k \in 1..SendWrites(t) |-> SendByte(t, k)]
LoopReturned == iter >= 1 /\ stack = <<>>

\* C11: every loop iteration sends the eight characters of "TESTACIA" once
\* (so after k iterations k complete sends have happened), and in 6850.ino
\* the iteration ends with the 50 ms blink delay and the 1000 ms wait.
C11_SendPerIteration ==
    LoopReturned =>
      /\ sends = iter
      /\ SendBytes(sendTrace) = testString
      /\ variant = "6850.ino" =>
           /\ Len(wlog) >= 2
           /\ wlog[Len(wlog) - 1] = <<DELAYMARK, DELAY_MEDIUM>>
           /\ wlog[Len(wlog)] = <<DELAYMARK, 1000>>

DataPinSet == {DataPins[i] : i \in 1..8}
AboutToWriteData == At("digitalWrite") /\ Instr.a \in DataPinSet

\* C12: whenever the program is about to write a data line, a register write
\* is in progress that has driven chip-select HIGH and not yet LOW, so
\* chip-select is HIGH, and ENABLE is LOW.
C12_DataOnlyWhileSelected ==
    AboutToWriteData =>
      /\ WriteInProgress
      /\ pins[CSN] = HIGH
      /\ pins[ENABLE] = LOW
      /\ \E i \in 1..Len(WriteTrace) : WriteTrace[i] = <<CSN, HIGH>>
      /\ \A i \in 1..Len(WriteTrace) : WriteTrace[i] # <<CSN, LOW>>
      /\ \A i \in 1..Len(WriteTrace) : WriteTrace[i] # <<ENABLE, HIGH>>

C12_Witness ==
    /\ AboutToWriteData
    /\ Instr.a = D3
    /\ wfn = "initMC6850"
    /\ pins[CSN] = HIGH

\* a delay() of at least 1 ms logged strictly between entries a and b of wlog
DelayBetween(a, b) ==
    \E k \in (a + 1)..(b - 1) : wlog[k][1] = DELAYMARK /\ wlog[k][2] >= 1
Entries(e) == {i \in 1..Len(wlog) : wlog[i] = e}
FirstDataEntry == {i \in 1..Len(wlog) : wlog[i][1] = D0}

\* C13: in every register write a delay lies between chip-select HIGH and
\* the first data line, between chip-select LOW and ENABLE HIGH, and between
\* ENABLE HIGH and the return; so when the next write starts, a delay has
\* passed since the last ENABLE edge.
C13_SettlingDelays ==
    /\ \A d \in FirstDataEntry :
         \E c \in Entries(<<CSN, HIGH>>) : c < d /\ DelayBetween(c, d)
    /\ \A e \in Entries(<<ENABLE, HIGH>>) :
         \E c \in Entries(<<CSN, LOW>>) : c < e /\ DelayBetween(c, e)
    /\ (wfn # "none" /\ ~WriteInProgress) =>
         \E e \in Entries(<<ENABLE, HIGH>>) : DelayBetween(e, Len(wlog) + 1)

C13_Witness ==
    /\ variant = "6850.ino"
    /\ wfn = "writeCharToUart"
    /\ ~WriteInProgress
    /\ Len(wlog) = 20
    /\ wlog[20] = <<DELAYMARK, DELAY_SHORT>>
    /\ wlog[19] = <<ENABLE, HIGH>>

WrittenValue == IF wfn \in DataWriteFns THEN txByte ELSE 21

\* levels between register writes, once setup() has returned
IdleLevels ==
    (SetupReturned /\ ~WriteInProgress) =>
      pins[ENABLE] = HIGH /\ pins[CSN] = LOW /\ pins[RWN] = LOW

\* C14: when a register write of value v to register r has returned, ENABLE
\* is HIGH, chip-select LOW, RWN LOW, RS is r's address and D0..D7 are the
\* bits of v, whatever the lines held before the write; so whenever no write
\* is in progress after setup(), ENABLE is HIGH, chip-select LOW, RWN LOW.
C14_LevelsOnReturn ==
    /\ (wfn # "none" /\ ~WriteInProgress) =>
         /\ pins[ENABLE] = HIGH
         /\ pins[CSN] = LOW
         /\ pins[RWN] = LOW
         /\ pins[RS] = RegOf(wfn)
         /\ \A i \in 0..7 : pins[DataPins[i + 1]] = BitOf(WrittenValue, i)
    /\ IdleLevels

C14_Witness ==
    /\ variant = "MC6850.ino"
    /\ wfn = "writeUart"
    /\ ~WriteInProgress
    /\ txByte = 170
    /\ wlog[10] = <<D0, LOW>>
    /\ pins[D1] = HIGH /\ pins[RS] = HIGH

\* C15: RWN is never at the read level: its latch is LOW in every state and
\* every digitalWrite to it writes LOW, so every ENABLE edge has RWN LOW.
C15_TransmitOnly ==
    /\ pins[RWN] = LOW
    /\ (At("digitalWrite") /\ Instr.a = RWN) => Level(Instr.b) = LOW
    /\ \A i \in 1..Len(wlog) : wlog[i][1] = RWN => wlog[i][2] = LOW

C15_Witness ==
    /\ DataWrites >= 8
    /\ wfn = "writeCharToUart"
    /\ Len(wlog) >= 3
    /\ wlog[3] = <<RWN, LOW>>
    /\ pins[ENABLE] = HIGH

TimerValue(r) == IF r = "TCCR2A" THEN 67 ELSE IF r = "TCCR2B" THEN 9 ELSE 51

\* C16: TCCR2A, TCCR2B and OCR2A are each assigned once, inside the clock
\* initialization, to 0b01000011, 0b00001001 and 51, and keep those values;
\* no digitalWrite names the BAUDCLK pin.
C16_TimerFrame ==
    /\ \A r \in TimerRegs :
         /\ timerCount[r] <= 1
         /\ timer[r] = (IF timerCount[r] = 1 THEN TimerValue(r) ELSE 0)
    /\ At("reg") => Top.fn \in {"initClocks", "initBaudClock"}
    /\ (SetupReturned \/ WriteInProgress) => TimerProgrammed
    /\ At("digitalWrite") => Instr.a # BAUDCLK
    /\ pins[BAUDCLK] = LOW

C16_Witness ==
    /\ iter = 2
    /\ stack = <<>>
    /\ DataWrites >= 9
    /\ timer = [r \in TimerRegs |-> TimerValue(r)]
    /\ \A r \in TimerRegs : timerCount[r] = 1

----------------------------------------------------------------------------
\* The statements of MC6850.ino from reset to the end of the first loop()
\* call, in program order, with every call replaced by the callee's body

Body_MC6850(fn, data) ==
    CASE fn = "setup" -> setup_MC6850
      [] fn = "loop" -> loop_MC6850
      [] fn = "setBusesToOutput" -> setBusesToOutput
      [] fn = "initBaudClock" -> initBaudClock
      [] fn = "initMC6850" -> initMC6850
      [] fn = "writeUart" -> writeUart(data)
      [] fn = "writeDataBus" -> writeDataBus(data)

RECURSIVE Flat(_)
Flat(body) ==
    IF body = <<>> THEN <<>>
    ELSE LET h == Head(body)
             here == CASE h.op = "call" -> Flat(Body_MC6850(h.a, h.b))
                       [] h.op = "pinMode" /\ h.a \in BusLines ->
                            << <<"pinMode", h.a, h.b>> >>
                       [] h.op = "digitalWrite" /\ h.a \in BusLines ->
                            << <<"digitalWrite", h.a, Level(h.b)>> >>
                       [] h.op = "reg" -> << <<"reg", RegIndex(h.a), h.b>> >>
                       [] OTHER -> <<>>
         IN  here \o Flat(Tail(body))

Events_MC6850 == Flat(setup_MC6850 \o loop_MC6850)

\* the first send has returned
FirstSendDone == sends >= 1

\* C17: once the first message has been sent, the pinMode, timer-register and
\* digitalWrite statements executed on the control and data lines since reset
\* (delays and the LED pin left out, CSN and CS2N being the same pin A3) are,
\* in either sketch, the statement sequence of MC6850.ino
C17_SameWrites ==
    FirstSendDone => events = Events_MC6850

----------------------------------------------------------------------------
\* printStringToUart on its own: 6850.ino after setup() has returned, with any
\* zero-terminated string of at most MaxStr bytes stored in program memory

MaxStr == 2

\* bytes of the stored string: the smallest, a letter, the two ends of the
\* range that is negative as a char
StrBytes == {1, 65, 128, 255}

Strings == UNION {[1..n -> StrBytes] : n \in 0..MaxStr}

\* the control byte initUart left on the data lines
ControlByte == 21

InitStr ==
    /\ variant = "6850.ino"
    /\ progmem \in Strings
    /\ stack = <<Frame("printStringToUart", 0)>>
    /\ pins = IdlePins(LOW, ControlByte)
    /\ mode = [p \in AllPins |-> OUTPUT]
    /\ modeCount = [p \in AllPins |-> 1]
    /\ timer = [r \in TimerRegs |->
                  IF r = "TCCR2A" THEN 67 ELSE IF r = "TCCR2B" THEN 9 ELSE 51]
    /\ timerCount = [r \in TimerRegs |-> 1]
    /\ started = TRUE
    /\ iter = 0
    /\ txByte = ControlByte
    /\ wfn = "initUart"
    /\ wlog = <<>>
    /\ latched = <<>>
    /\ lastGap = -1
    /\ sinceData = -1
    /\ sendTrace = <<>>
    /\ prevTrace = <<>>
    /\ sends = 0
    /\ busWritten = TRUE
    /\ events = <<>>

NextStr ==
    \/ DigitalWrite
    \/ Delay
    \/ Call
    \/ Return
    \/ ForStrlen
    \/ PgmRead
    \/ Incr

SpecStr == InitStr /\ [][NextStr]_vars

\* printStringToUart has returned
PrintReturned == stack = <<>> /\ sends = 1

\* C18: when printStringToUart returns, the data-register writes it made are
\* as many as the stored string has bytes, and the k-th write put the 8 bits
\* of the k-th byte on D0..D7: nothing for the empty string, no write of the
\* terminator, bytes from 0x80 up unchanged by the signed char
C18_PrintsString ==
    PrintReturned =>
      /\ Len(sendTrace) = 14 * Len(progmem)
      /\ \A k \in 1..Len(progmem) : SendByte(sendTrace, k) = progmem[k]

====
